---- MODULE Spec2Model ----
(***************************************************************************)
(* CVE synchronisation service: the sync orchestrator (SyncService), the   *)
(* record store upsert (CVEService) and the paginated upstream client      *)
(* (NVDClient), modelled as one asyncio event loop.  Every action is the   *)
(* code that runs between two suspension points of a coroutine; calls to   *)
(* the Supabase client are synchronous and therefore never split.          *)
(***************************************************************************)
EXTENDS Integers, Sequences, FiniteSets, TLC

\* ------------------------------------------------------------------ bounds
\* number of SyncRun rows (= accepted triggers) explored
MaxRuns == 2
\* number of runs started through the REST layer
MaxRest == 1
\* scaled-down settings.nvd_results_per_page and settings.sync_batch_size
PageSize == 2
BatchSize == 2
\* clock ticks per second and per "7 days" (scaled)
TicksPerSecond == 2
Week == 4
\* clock value at start-up
StartTime == 6
\* number of upserts applied in the upsert specification
MaxUpserts == 3
\* largest results_per_page, and largest page the server serves, in the
\* stream specification
MaxPageSize == 3
\* largest max_results in the stream specification
MaxResults == 3
\* largest max_retries in the request specification
MaxRetries == 2
\* largest page number, page size and number of stored rows in the listing
\* specification
MaxPage == 3
MaxSize == 3
MaxStored == 4
\* largest CVSS score in the score-filter specification
MaxScore == 3
\* ticks in a day, largest days_to_keep and largest number of rows in the
\* cleanup specification
Day == 2
MaxDays == 2
MaxRows == 2

\* the status _make_request takes for the upstream's rate-limit signal
RateLimitStatus == 403

\* a held SyncService object has one holder, which calls it sequentially
Callers == {1}
CveIds == {1, 2, 3}
Versions == {1, 2}

\* Optional[...] values: None is the empty tuple, a present value a 1-tuple
None == <<>>
Some(x) == <<x>>
IsSome(o) == o # <<>>
Val(o) == o[1]

VARIABLES
  now,             \* datetime.now(timezone.utc), in ticks
  sync_status,     \* the sync_status table: row i has id i
  tasks,           \* tasks[i]: the asyncio task of _perform_sync(i, ...)
  services,        \* services[s]: _running_sync of SyncService object s (0 = None)
  callers,         \* request handlers: idle, holding a fresh service, or awaiting
  reply,           \* the answer the last step gave to a request, if it gave one
  cves,            \* the cves table: identifier -> Optional row
  upstream,        \* the records the NVD API serves, in its order
  references_col,  \* whether the cves table has a column named "references"
  upsert_log,      \* items passed to upsert_cve_from_nvd (upsert specification)
  store_writes,    \* number of insert/update statements the cves table accepted
  stream,          \* a get_all_cves generator: its locals and what it has done
  http,            \* a _make_request call: its loop index and what it has done
  listing          \* a get_cves list request and the response it was given

orch_vars == <<sync_status, tasks, services, callers, reply>>
store_vars == <<cves, upstream, references_col, upsert_log, store_writes>>
client_vars == <<stream, http, listing>>
vars == <<now, sync_status, tasks, services, callers, reply, cves, upstream,
          references_col, upsert_log, store_writes, stream, http, listing>>

\* ------------------------------------------------------------ record store
\* keys of insert_data in create_cve, plus the server-assigned columns that
\* _row_to_cve_response reads
InsertColumns ==
  {"cve_id", "source_identifier", "vuln_status", "published", "last_modified",
   "description", "cvss_v2_score", "cvss_v3_score", "cvss_v2_vector",
   "cvss_v3_vector", "cvss_v2_severity", "cvss_v3_severity",
   "cpe_configurations", "cve_references", "weaknesses", "configurations",
   "raw_data"}

\* fields of CVEUpdate: the keys of cve_data.dict(exclude_unset=True)
CVEUpdate ==
  {"source_identifier", "vuln_status", "published", "last_modified",
   "description", "cvss_v2_score", "cvss_v3_score", "cvss_v2_vector",
   "cvss_v3_vector", "cvss_v2_severity", "cvss_v3_severity",
   "cpe_configurations", "references", "weaknesses", "configurations",
   "raw_data"}

TableColumns(refs) ==
  InsertColumns \cup {"id", "created_at", "updated_at"}
    \cup (IF refs THEN {"references"} ELSE {})

\* an upstream record is [id, lm, ver, bad]: lm is the time its lastModified
\* string stands for (None: no such key); bad tells what is wrong with it:
\*   "none"    nothing
\*   "date"    datetime.fromisoformat cannot parse its lastModified string
\*   "record"  its normalisation or its store write raises
BadKinds == {"none", "date", "record"}

\* datetime.fromisoformat(date_str.replace('Z', '+00:00')) raises ValueError
FromIsoFormatRaises(item) == IsSome(item.lm) /\ item.bad = "date"

\* _parse_date: an absent or unparseable date string degrades to None
_parse_date(item) == IF FromIsoFormatRaises(item) THEN None ELSE item.lm

\* upsert_cve_from_nvd raises for the item
UpsertRaises(item) == item.bad = "record"

\* _process_nvd_item: the normalised record (identifier, last_modified and
\* the rest of the payload, abstracted to a version number)
_process_nvd_item(item) ==
  [cve_id |-> item.id, last_modified |-> _parse_date(item), ver |-> item.ver]

\* get_cve_by_id
get_cve_by_id(store, id) == store[id]

\* create_cve: insert of a new row
create_cve(store, cve_data) == [store EXCEPT ![cve_data.cve_id] = Some(cve_data)]

\* update_cve: the update names every field of CVEUpdate plus updated_at;
\* the store rejects a payload naming an unknown column, the exception is
\* logged and swallowed (returns None) and no field is written
update_cve_accepted(refs) == (CVEUpdate \cup {"updated_at"}) \subseteq TableColumns(refs)

update_cve(store, refs, cve_data) ==
  IF update_cve_accepted(refs)
    THEN [store EXCEPT ![cve_data.cve_id] = Some(cve_data)]
    ELSE store

\* the comparison of upsert_cve_from_nvd: both timestamps present and the
\* incoming one strictly newer
Newer(new_lm, old_lm) == IsSome(new_lm) /\ IsSome(old_lm) /\ Val(new_lm) > Val(old_lm)

\* upsert_cve_from_nvd: result [store, was_created, wrote]
upsert_cve_from_nvd(store, refs, item) ==
  LET cve_data == _process_nvd_item(item)
      existing_cve == get_cve_by_id(store, cve_data.cve_id)
  IN IF IsSome(existing_cve)
       THEN IF Newer(cve_data.last_modified, Val(existing_cve).last_modified)
              THEN [store |-> update_cve(store, refs, cve_data),
                    was_created |-> FALSE,
                    wrote |-> IF update_cve_accepted(refs) THEN 1 ELSE 0]
              ELSE [store |-> store, was_created |-> FALSE, wrote |-> 0]
       ELSE [store |-> create_cve(store, cve_data), was_created |-> TRUE, wrote |-> 1]

\* upsert_cves_batch: result [store, created, updated, wrote]; an item whose
\* upsert raises is logged and passed over
RECURSIVE upsert_cves_batch(_, _, _)
upsert_cves_batch(store, refs, nvd_items) ==
  IF nvd_items = <<>>
    THEN [store |-> store, created |-> 0, updated |-> 0, wrote |-> 0]
    ELSE IF UpsertRaises(Head(nvd_items))
      THEN upsert_cves_batch(store, refs, Tail(nvd_items))
    ELSE LET r == upsert_cve_from_nvd(store, refs, Head(nvd_items))
             rest == upsert_cves_batch(r.store, refs, Tail(nvd_items))
         IN [store |-> rest.store,
             created |-> rest.created + (IF r.was_created THEN 1 ELSE 0),
             updated |-> rest.updated + (IF r.was_created THEN 0 ELSE 1),
             wrote |-> rest.wrote + r.wrote]

\* ------------------------------------------------------------ upstream API
\* strftime('%Y-%m-%dT%H:%M:%S.000'): the request carries whole seconds
FmtDate(t) == t - (t % TicksPerSecond)

\* the records the API matches for a request: all of them, or those last
\* modified within [lastModStartDate, lastModEndDate]
Matching(ups, window) ==
  IF window = None THEN ups
  ELSE SelectSeq(ups, LAMBDA it :
         /\ IsSome(it.lm)
         /\ FmtDate(Val(window).start) <= Val(it.lm)
         /\ Val(it.lm) <= FmtDate(Val(window).end))

\* get_cves: one page (the successful answer of _make_request)
get_cves(ups, start_index, results_per_page, window) ==
  LET m == Matching(ups, window)
      last == IF start_index + results_per_page <= Len(m)
                THEN start_index + results_per_page ELSE Len(m)
  IN [total_results |-> Len(m), vulnerabilities |-> SubSeq(m, start_index + 1, last)]

\* ------------------------------------------------------- sync status store
Terminal == {"completed", "failed", "cancelled"}

\* _create_sync_status: the inserted row; the table assigns the next id
_create_sync_status(tbl, sync_type, t) ==
  Append(tbl, [sync_type |-> sync_type, status |-> "running", started_at |-> t,
               completed_at |-> None, total_records |-> 0, processed_records |-> 0,
               new_records |-> 0, updated_records |-> 0, error_message |-> None,
               last_modified_date |-> None])

\* _update_sync_status: every call writes status, the four counters and
\* last_modified_date; completed_at only with a terminal status
_update_sync_status(tbl, sync_id, status, total, processed, new, updated, lmd, t) ==
  [tbl EXCEPT ![sync_id] =
     [@ EXCEPT !.status = status, !.total_records = total,
               !.processed_records = processed, !.new_records = new,
               !.updated_records = updated, !.last_modified_date = lmd,
               !.completed_at = IF status \in Terminal THEN Some(t) ELSE @]]

\* the row "select id where status = running order by started_at desc limit 1"
LatestRunning(tbl) ==
  LET running == {i \in 1..Len(tbl) : tbl[i].status = "running"}
  IN IF running = {} THEN 0
     ELSE CHOOSE i \in running : \A j \in running : tbl[j].started_at <= tbl[i].started_at

\* _update_sync_status_error: sync_id 0 stands for None
_update_sync_status_error(tbl, sync_id, error_message, t) ==
  LET id == IF sync_id = 0 THEN LatestRunning(tbl) ELSE sync_id
  IN IF id = 0 THEN tbl
     ELSE [tbl EXCEPT ![id] = [@ EXCEPT !.status = "failed",
                                        !.error_message = Some(error_message),
                                        !.completed_at = Some(t)]]

\* a variant of _get_last_sync_date without the status filter: the row that
\* ended last, whatever its status
_get_last_sync_date_any_status(tbl) ==
  LET done == {i \in 1..Len(tbl) : /\ IsSome(tbl[i].completed_at)
                                    /\ IsSome(tbl[i].last_modified_date)}
  IN IF done = {} THEN None
     ELSE LET i == CHOOSE i \in done : \A j \in done :
                     Val(tbl[j].completed_at) <= Val(tbl[i].completed_at)
          IN tbl[i].last_modified_date

\* _get_last_sync_date: last_modified_date of the completed row with the
\* latest completed_at, among rows whose last_modified_date is not null
_get_last_sync_date(tbl) ==
  LET done == {i \in 1..Len(tbl) : /\ tbl[i].status = "completed"
                                    /\ IsSome(tbl[i].last_modified_date)}
  IN IF done = {} THEN None
     ELSE LET i == CHOOSE i \in done : \A j \in done :
                     Val(tbl[j].completed_at) <= Val(tbl[i].completed_at)
          IN tbl[i].last_modified_date

\* ------------------------------------------------------------ orchestrator
sync_enabled == TRUE

\* the answer to a request: the operation, whether it came through the REST
\* layer, its force flag and the outcome
Reply(op, rest, force, result, sync_id) ==
  [op |-> op, rest |-> rest, force |-> force, result |-> result]

\* a step that answers no request
NoReply == Reply("none", FALSE, FALSE, "none", 0)

NewTask(owner, sync_type) ==
  [pc |-> "created", owner |-> owner, must_cancel |-> FALSE, sync_type |-> sync_type,
   exc |-> "none", outcome |-> "none", window |-> None, total_records |-> 0,
   start_index |-> 0, page |-> <<>>, page_len |-> 0, page_total |-> 0,
   batch |-> <<>>, total_processed |-> 0, total_created |-> 0,
   total_updated |-> 0, latest_modified |-> 0]

\* Task.done()
Done(tk) == tk.pc = "done"

\* a finished task: the coroutine frame and its locals are gone
Finished(tk, outcome) ==
  [NewTask(tk.owner, tk.sync_type) EXCEPT !.pc = "done", !.outcome = outcome]

\* is_sync_running of a service object whose _running_sync is running_sync
\* (0 = None)
is_sync_running(running_sync, tks) == running_sync # 0 /\ ~Done(tks[running_sync])

\* the finally clause of _perform_sync: self._running_sync = None.  Owner 0 is
\* a service object made by get_sync_service: after its request nothing but
\* the task refers to it, so the write is seen by no one
ClearMarker(svcs, tk) == IF tk.owner = 0 THEN svcs ELSE [svcs EXCEPT ![tk.owner] = 0]

\* a variant of the end of a sync without "Process remaining batch": the
\* records left in a partial batch are neither upserted nor counted
FinishSyncDropRemainder(id, st, refs, t) ==
  LET tk == st.tk
      lmd == IF tk.sync_type = "full" THEN t ELSE tk.latest_modified
  IN [tk |-> [tk EXCEPT !.batch = <<>>, !.pc = "closing"],
      store |-> st.store,
      tbl |-> _update_sync_status(st.tbl, id, "completed", tk.total_records,
                                  tk.total_processed, tk.total_created,
                                  tk.total_updated, Some(lmd), t),
      wrote |-> st.wrote]

\* "Process remaining batch" and "Mark as completed" of _perform_full_sync and
\* _perform_incremental_sync; the task then awaits NVDClient.__aexit__.
\* st = [tk, store, tbl, wrote]
FinishSync(id, st, refs, t) ==
  LET tk == st.tk
      r == upsert_cves_batch(st.store, refs, tk.batch)
      created == tk.total_created + r.created
      updated == tk.total_updated + r.updated
      processed == tk.total_processed + Len(tk.batch)
      lmd == IF tk.sync_type = "full" THEN t ELSE tk.latest_modified
  IN [tk |-> [tk EXCEPT !.batch = <<>>, !.total_created = created,
                        !.total_updated = updated, !.total_processed = processed,
                        !.pc = "closing"],
      store |-> r.store,
      tbl |-> _update_sync_status(st.tbl, id, "completed", tk.total_records,
                                  processed, created, updated, Some(lmd), t),
      wrote |-> st.wrote + r.wrote]

\* the "async for cve_item in get_all_cves(...)" loop over the page in hand,
\* run until the next suspension point: the sleep after a full batch, the
\* sleep and request for the next page, or the close of the client session
RECURSIVE RunLoop(_, _, _, _)
RunLoop(id, st, refs, t) ==
  LET tk == st.tk IN
  IF tk.page = <<>>
    THEN IF tk.start_index + tk.page_len >= tk.page_total
           THEN FinishSync(id, st, refs, t)
           ELSE [st EXCEPT !.tk.start_index = @ + tk.page_len, !.tk.pc = "page"]
    ELSE
      LET cve_item == Head(tk.page)
          batch == Append(tk.batch, cve_item)
          latest == IF /\ tk.sync_type = "incremental"
                       /\ IsSome(cve_item.lm)
                       /\ Val(cve_item.lm) > tk.latest_modified
                      THEN Val(cve_item.lm) ELSE tk.latest_modified
      IN IF tk.sync_type = "incremental" /\ FromIsoFormatRaises(cve_item)
           THEN [st EXCEPT !.tk.page = Tail(@), !.tk.batch = batch,
                           !.tk.pc = "closing", !.tk.exc = "error"]
         ELSE IF Len(batch) >= BatchSize
           THEN LET r == upsert_cves_batch(st.store, refs, batch)
                    created == tk.total_created + r.created
                    updated == tk.total_updated + r.updated
                    processed == tk.total_processed + Len(batch)
                IN [tk |-> [tk EXCEPT !.page = Tail(@), !.batch = <<>>,
                                      !.latest_modified = latest,
                                      !.total_created = created,
                                      !.total_updated = updated,
                                      !.total_processed = processed,
                                      !.pc = "batch_sleep"],
                    store |-> r.store,
                    tbl |-> _update_sync_status(st.tbl, id, "running", tk.total_records,
                                                processed, created, updated, None, t),
                    wrote |-> st.wrote + r.wrote]
           ELSE RunLoop(id, [st EXCEPT !.tk.page = Tail(@), !.tk.batch = batch,
                                       !.tk.latest_modified = latest], refs, t)

\* _perform_sync up to the first await that suspends: the probe request.
\* The incremental path first reads the high-water mark and fixes its window.
TaskStart(id) ==
  /\ id \in 1..Len(tasks)
  /\ tasks[id].pc = "created" /\ ~tasks[id].must_cancel
  /\ LET tk == tasks[id]
         last == _get_last_sync_date(sync_status)
         last_sync_date == IF IsSome(last) THEN Val(last) ELSE now - Week
     IN tasks' = [tasks EXCEPT ![id] =
          IF tk.sync_type = "full"
            THEN [tk EXCEPT !.pc = "probe"]
            ELSE [tk EXCEPT !.pc = "probe",
                            !.window = Some([start |-> last_sync_date, end |-> now]),
                            !.latest_modified = last_sync_date]]
  /\ now' = IF tasks[id].sync_type = "full" THEN now ELSE now + 1
  /\ reply' = NoReply
  /\ UNCHANGED <<sync_status, services, callers, store_vars, client_vars>>

\* a variant of the probe step without the "if total_records == 0" return of
\* the incremental path: the run always goes on to its first page request
ProbeOkNoShortCircuit(id) ==
  /\ id \in 1..Len(tasks)
  /\ tasks[id].pc = "probe" /\ ~tasks[id].must_cancel
  /\ LET tk == tasks[id]
         total_records == get_cves(upstream, 0, 1, tk.window).total_results
     IN /\ sync_status' = _update_sync_status(sync_status, id, "running", total_records,
                                              0, 0, 0, None, now)
        /\ tasks' = [tasks EXCEPT ![id] =
                       [tk EXCEPT !.pc = "page", !.total_records = total_records]]
  /\ reply' = NoReply
  /\ UNCHANGED <<now, services, callers, store_vars, client_vars>>

\* the probe get_cves(results_per_page=1) answers: total_records is written;
\* an incremental run with no matching record completes at once, any other
\* run issues the first page request of get_all_cves
ProbeOk(id) ==
  /\ id \in 1..Len(tasks)
  /\ tasks[id].pc = "probe" /\ ~tasks[id].must_cancel
  /\ LET tk == tasks[id]
         initial_response == get_cves(upstream, 0, 1, tk.window)
         total_records == initial_response.total_results
         tbl1 == _update_sync_status(sync_status, id, "running", total_records,
                                     0, 0, 0, None, now)
     IN IF tk.sync_type = "incremental" /\ total_records = 0
          THEN /\ sync_status' = _update_sync_status(tbl1, id, "completed", 0, 0, 0, 0,
                                                     Some(Val(tk.window).end), now)
               /\ tasks' = [tasks EXCEPT ![id] = [tk EXCEPT !.pc = "closing"]]
          ELSE /\ sync_status' = tbl1
               /\ tasks' = [tasks EXCEPT ![id] =
                              [tk EXCEPT !.pc = "page", !.total_records = total_records]]
  /\ now' = IF tasks'[id].pc = "closing" THEN now + 1 ELSE now
  /\ reply' = NoReply
  /\ UNCHANGED <<services, callers, store_vars, client_vars>>

\* a page request of get_all_cves answers: its records are consumed
PageOk(id) ==
  /\ id \in 1..Len(tasks)
  /\ tasks[id].pc = "page" /\ ~tasks[id].must_cancel
  /\ LET tk == tasks[id]
         response == get_cves(upstream, tk.start_index, PageSize, tk.window)
         st0 == [tk |-> [tk EXCEPT !.page = response.vulnerabilities,
                                   !.page_len = Len(response.vulnerabilities),
                                   !.page_total = response.total_results],
                 store |-> cves, tbl |-> sync_status, wrote |-> store_writes]
         st == IF response.vulnerabilities = <<>>
                 THEN FinishSync(id, st0, references_col, now)
                 ELSE RunLoop(id, st0, references_col, now)
     IN /\ tasks' = [tasks EXCEPT ![id] = st.tk]
        /\ cves' = st.store
        /\ sync_status' = st.tbl
        /\ store_writes' = st.wrote
        /\ now' = IF st.tk.pc = "closing" THEN now + 1 ELSE now
  /\ reply' = NoReply
  /\ UNCHANGED <<services, callers, upstream, references_col, upsert_log,
               client_vars>>

\* the sleep after a full batch ends: the loop goes on with the page in hand
BatchResume(id) ==
  /\ id \in 1..Len(tasks)
  /\ tasks[id].pc = "batch_sleep" /\ ~tasks[id].must_cancel
  /\ LET st == RunLoop(id, [tk |-> tasks[id], store |-> cves, tbl |-> sync_status,
                            wrote |-> store_writes], references_col, now)
     IN /\ tasks' = [tasks EXCEPT ![id] = st.tk]
        /\ cves' = st.store
        /\ sync_status' = st.tbl
        /\ store_writes' = st.wrote
        /\ now' = IF st.tk.pc = "closing" THEN now + 1 ELSE now
  /\ reply' = NoReply
  /\ UNCHANGED <<services, callers, upstream, references_col, upsert_log,
               client_vars>>

\* a request of the client fails for good (_make_request raises): the
\* exception leaves the sync path and the client session is closed
HttpFail(id) ==
  /\ id \in 1..Len(tasks)
  /\ tasks[id].pc \in {"probe", "page"} /\ ~tasks[id].must_cancel
  /\ tasks' = [tasks EXCEPT ![id] = [@ EXCEPT !.pc = "closing", !.exc = "error"]]
  /\ reply' = NoReply
  /\ UNCHANGED <<now, sync_status, services, callers, store_vars, client_vars>>

\* a variant of the handlers without the "except Exception" clause: an error
\* of the sync path ends the task and leaves its row as it was
HandlerCancelOnly(tbl, id, exc, t) ==
  IF exc = "cancelled" THEN _update_sync_status_error(tbl, id, "Synchronization cancelled", t)
  ELSE tbl

\* the except clauses of _perform_sync
Handler(tbl, id, exc, t) ==
  IF exc = "cancelled" THEN _update_sync_status_error(tbl, id, "Synchronization cancelled", t)
  ELSE IF exc = "error" THEN _update_sync_status_error(tbl, id, "upstream error", t)
  ELSE tbl

\* NVDClient.__aexit__ returns: the pending exception, if any, reaches the
\* handlers of _perform_sync; the finally clause clears the marker
CloseDone(id) ==
  /\ id \in 1..Len(tasks)
  /\ tasks[id].pc = "closing" /\ ~tasks[id].must_cancel
  /\ LET tk == tasks[id]
     IN /\ sync_status' = Handler(sync_status, id, tk.exc, now)
        /\ tasks' = [tasks EXCEPT ![id] =
             Finished(tk, IF tk.exc = "none" THEN "returned" ELSE tk.exc)]
        /\ services' = ClearMarker(services, tk)
        /\ now' = IF tk.exc = "none" THEN now ELSE now + 1
  /\ reply' = NoReply
  /\ UNCHANGED <<callers, store_vars, client_vars>>

\* Task.cancel() takes effect: CancelledError is thrown into the coroutine at
\* its suspension point.  A task that never started ends without running
\* its body; inside the sync path the exception unwinds through __aexit__;
\* inside __aexit__ it reaches the handler of _perform_sync at once
CancelDeliver(id) ==
  /\ id \in 1..Len(tasks)
  /\ tasks[id].must_cancel /\ ~Done(tasks[id])
  /\ LET tk == tasks[id]
     IN IF tk.pc = "created"
          THEN /\ tasks' = [tasks EXCEPT ![id] = Finished(tk, "cancelled")]
               /\ UNCHANGED <<now, sync_status, services>>
          ELSE IF tk.pc = "closing"
          THEN /\ sync_status' = Handler(sync_status, id, "cancelled", now)
               /\ tasks' = [tasks EXCEPT ![id] = Finished(tk, "cancelled")]
               /\ services' = ClearMarker(services, tk)
               /\ now' = now + 1
          ELSE /\ tasks' = [tasks EXCEPT ![id] =
                    [tk EXCEPT !.pc = "closing", !.exc = "cancelled",
                               !.must_cancel = FALSE]]
               /\ UNCHANGED <<now, sync_status, services>>
  /\ reply' = NoReply
  /\ UNCHANGED <<callers, store_vars, client_vars>>

\* ------------------------------------------------------- service operations
\* the service object a long-lived caller holds (scripts/manage.py, the
\* scheduled task); REST handlers get theirs from get_sync_service
HeldService == 1

\* get_sync_service: a new SyncService; the value is its _running_sync, None
get_sync_service == 0

IdleCaller == [pc |-> "idle", op |-> "none", sync_type |-> "none",
               force |-> FALSE, task |-> 0]

\* callers are interchangeable: a call is taken by the first idle one
FirstIdle(c) ==
  /\ callers[c].pc = "idle"
  /\ \A d \in DOMAIN callers : d < c => callers[d].pc # "idle"

\* the status code the REST layer gives a reply
HttpStatus(r) ==
  CASE r.result = "started" -> 202
    [] r.result \in {"already_running", "disabled"} -> 400
    [] r.result = "cancelled" -> 200
    [] r.result = "not_running" -> 404
    [] OTHER -> 500

\* the cap on the number of runs: MaxRuns for one caller, and one more for
\* every further caller that can wait with a forced trigger of its own
RunBound == MaxRuns + Cardinality(DOMAIN callers) - 1

\* trigger_sync from "Determine sync type" on: the row is created, the task
\* launched and remembered in _running_sync, the id returned.  owner is the
\* held service, or 0 for a service object of get_sync_service
Launch(owner, svcs, tbl, sync_type, force, t) ==
  /\ Len(tbl) < RunBound
  /\ sync_status' = _create_sync_status(tbl, sync_type, t)
  /\ tasks' = Append(tasks, NewTask(owner, sync_type))
  /\ services' = IF owner = 0 THEN svcs ELSE [svcs EXCEPT ![owner] = Len(tbl) + 1]
  /\ reply' = Reply("trigger", owner = 0, force, "started", Len(tbl) + 1)
  /\ now' = t + 1

\* cancel_running_sync up to "await self._running_sync": the task is asked to
\* cancel and the caller waits for it
CancelAndWait(c, op, sync_type, force) ==
  /\ tasks' = [tasks EXCEPT ![services[HeldService]] = [@ EXCEPT !.must_cancel = TRUE]]
  /\ callers' = [callers EXCEPT ![c] =
       [pc |-> "await_cancel", op |-> op, sync_type |-> sync_type,
        force |-> force, task |-> services[HeldService]]]
  /\ reply' = NoReply
  /\ UNCHANGED <<now, sync_status, services>>

\* SyncService.trigger_sync called on the held service object
trigger_sync(c, sync_type, force) ==
  /\ FirstIdle(c)
  /\ IF ~sync_enabled /\ ~force
       THEN /\ reply' = Reply("trigger", FALSE, force, "disabled", 0)
            /\ UNCHANGED <<now, sync_status, tasks, services, callers>>
       ELSE IF is_sync_running(services[HeldService], tasks)
         THEN IF ~force
                THEN /\ reply' = Reply("trigger", FALSE, force, "already_running", 0)
                     /\ UNCHANGED <<now, sync_status, tasks, services, callers>>
                ELSE CancelAndWait(c, "trigger", sync_type, force)
         ELSE /\ Launch(HeldService, services, sync_status, sync_type, force, now)
              /\ UNCHANGED callers
  /\ UNCHANGED <<store_vars, client_vars>>

\* a variant of cancel_running_sync without its first two lines (the early
\* return): with no run to cancel it still marks the latest running row and
\* returns True
cancel_running_sync_unguarded(c) ==
  /\ FirstIdle(c)
  /\ IF ~is_sync_running(services[HeldService], tasks)
       THEN /\ reply' = Reply("cancel", FALSE, FALSE, "cancelled", 0)
            /\ services' = [services EXCEPT ![HeldService] = 0]
            /\ sync_status' = _update_sync_status_error(sync_status, 0,
                                 "Synchronization cancelled by user", now)
            /\ now' = now + 1
            /\ UNCHANGED <<tasks, callers>>
       ELSE CancelAndWait(c, "cancel", "none", FALSE)
  /\ UNCHANGED <<store_vars, client_vars>>

\* SyncService.cancel_running_sync called on the held service object
cancel_running_sync(c) ==
  /\ FirstIdle(c)
  /\ IF ~is_sync_running(services[HeldService], tasks)
       THEN /\ reply' = Reply("cancel", FALSE, FALSE, "not_running", 0)
            /\ UNCHANGED <<now, sync_status, tasks, services, callers>>
       ELSE CancelAndWait(c, "cancel", "none", FALSE)
  /\ UNCHANGED <<store_vars, client_vars>>

\* POST /sync/: trigger_sync on the service object of get_sync_service.  Its
\* _running_sync is None, so the handler never reaches an await that suspends
rest_trigger_sync(sync_type, force) ==
  /\ IF ~sync_enabled /\ ~force
       THEN /\ reply' = Reply("trigger", TRUE, force, "disabled", 0)
            /\ UNCHANGED <<now, sync_status, tasks, services>>
       ELSE /\ ~is_sync_running(get_sync_service, tasks)
            /\ Cardinality({i \in 1..Len(tasks) : tasks[i].owner = 0}) < MaxRest
            /\ Launch(0, services, sync_status, sync_type, force, now)
  /\ UNCHANGED <<callers, store_vars, client_vars>>

\* POST /sync/cancel: cancel_running_sync on the service object of
\* get_sync_service
rest_cancel_sync ==
  /\ ~is_sync_running(get_sync_service, tasks)
  /\ reply' = Reply("cancel", TRUE, FALSE, "not_running", 0)
  /\ UNCHANGED <<now, sync_status, tasks, services, callers, store_vars, client_vars>>

\* cancel_running_sync after "await self._running_sync": the marker is
\* cleared, the latest running row is marked through
\* _update_sync_status_error(None, ...), and True is returned; inside
\* trigger_sync the new run is then created and launched
CancelResume(c) ==
  /\ callers[c].pc = "await_cancel"
  /\ Done(tasks[callers[c].task])
  /\ LET cl == callers[c]
         svcs1 == [services EXCEPT ![HeldService] = 0]
         tbl1 == _update_sync_status_error(sync_status, 0,
                                           "Synchronization cancelled by user", now)
     IN IF tasks[cl.task].outcome = "error"
          THEN /\ reply' = Reply(cl.op, FALSE, cl.force, "error", 0)
               /\ UNCHANGED <<now, sync_status, tasks, services>>
          ELSE IF cl.op = "cancel"
          THEN /\ reply' = Reply("cancel", FALSE, FALSE, "cancelled", cl.task)
               /\ services' = svcs1
               /\ sync_status' = tbl1
               /\ now' = now + 1
               /\ UNCHANGED tasks
          ELSE Launch(HeldService, svcs1, tbl1, cl.sync_type, cl.force, now + 1)
  /\ callers' = [callers EXCEPT ![c] = IdleCaller]
  /\ UNCHANGED <<store_vars, client_vars>>

\* ---------------------------------------------------------- specifications
SyncTypes == {"full", "incremental"}

Item(i, t, v) == [id |-> i, lm |-> Some(t), ver |-> v, bad |-> "none"]

\* the upstream of the orchestrator specification: one page, one batch
Upstream2 == <<Item(1, 5, 1), Item(2, 6, 1)>>

\* no get_all_cves generator of its own is under study
NoStream == [pc |-> "idle"]

\* no _make_request call of its own is under study
NoRequest == [pc |-> "idle"]

\* no list request of its own is under study
NoListing == [pc |-> "idle"]

InitBase(ups, refs) ==
  /\ now = StartTime
  /\ sync_status = <<>>
  /\ tasks = <<>>
  /\ services = <<0>>
  /\ callers = [c \in Callers |-> IdleCaller]
  /\ reply = NoReply
  /\ cves = [i \in CveIds |-> None]
  /\ upstream = ups
  /\ references_col \in refs
  /\ upsert_log = <<>>
  /\ store_writes = 0

InitWith(ups, refs) ==
  /\ InitBase(ups, refs)
  /\ stream = NoStream
  /\ http = NoRequest
  /\ listing = NoListing

\* the orchestrator specification: the cves table has the columns the source
\* names (create_cve, _row_to_cve_response)
Init == InitWith(Upstream2, {FALSE})

TaskStep ==
  \E id \in 1..MaxRuns :
    \/ TaskStart(id)
    \/ ProbeOk(id)
    \/ PageOk(id)
    \/ BatchResume(id)
    \/ HttpFail(id)
    \/ CloseDone(id)

Next ==
  \/ \E c \in Callers, k \in SyncTypes, f \in BOOLEAN : trigger_sync(c, k, f)
  \/ \E k \in SyncTypes, f \in BOOLEAN : rest_trigger_sync(k, f)
  \/ \E c \in Callers : cancel_running_sync(c)
  \/ rest_cancel_sync
  \/ \E c \in Callers : CancelResume(c)
  \/ \E id \in 1..MaxRuns : CancelDeliver(id)
  \/ TaskStep

Spec == Init /\ [][Next]_vars

\* the service specification: one SyncService object and its holder, with
\* cancel requests of the REST layer arriving at any time
NextService ==
  \/ \E c \in Callers, k \in SyncTypes, f \in BOOLEAN : trigger_sync(c, k, f)
  \/ \E c \in Callers : cancel_running_sync(c)
  \/ rest_cancel_sync
  \/ \E c \in Callers : CancelResume(c)
  \/ \E id \in 1..MaxRuns : CancelDeliver(id)
  \/ TaskStep

SpecService == Init /\ [][NextService]_vars

\* the upsert specification: upsert_cve_from_nvd applied to items drawn from
\* a bounded set, on either table layout
UpsertItems ==
  {[id |-> i, lm |-> l, ver |-> v, bad |-> "none"] :
     i \in {1, 2}, l \in {None, Some(1), Some(2)}, v \in Versions}

Upsert(item) ==
  /\ Len(upsert_log) < MaxUpserts
  /\ LET r == upsert_cve_from_nvd(cves, references_col, item)
     IN /\ cves' = r.store
        /\ store_writes' = store_writes + r.wrote
        /\ upsert_log' = Append(upsert_log, [item |-> item, was_created |-> r.was_created,
                                             wrote |-> r.wrote])
  /\ UNCHANGED <<now, orch_vars, upstream, references_col, client_vars>>

InitUpsert == InitWith(<<>>, BOOLEAN)

NextUpsert == \E item \in UpsertItems : Upsert(item)

SpecUpsert == InitUpsert /\ [][NextUpsert]_vars

\* the sequential sync specification: non-forced runs of the held service,
\* one after the other, against an upstream that answers every request
UpstreamChoices ==
  {<<>>,
   <<Item(1, 5, 1)>>,
   <<Item(1, 5, 1), Item(2, 6, 1)>>,
   <<Item(1, 1, 1), Item(2, 5, 1), Item(3, 6, 1)>>}

InitSync == \E ups \in UpstreamChoices : InitWith(ups, BOOLEAN)

NextSync ==
  \/ \E c \in Callers, k \in SyncTypes : trigger_sync(c, k, FALSE)
  \/ \E id \in 1..MaxRuns :
       \/ TaskStart(id)
       \/ ProbeOk(id)
       \/ PageOk(id)
       \/ BatchResume(id)
       \/ CloseDone(id)

SpecSync == InitSync /\ [][NextSync]_vars

\* the stream specification: one get_all_cves generator, consumed to its end,
\* for every results_per_page, server page limit and max_results in range;
\* upstream may lose its first record once while the generator runs
Truthy(o) == IsSome(o) /\ Val(o) # 0

NewStream(ups, results_per_page, server_limit, max_results) ==
  [pc |-> "request", results_per_page |-> results_per_page,
   server_limit |-> server_limit, max_results |-> max_results,
   kwargs_results_per_page |-> None, start_index |-> 0, fetched_count |-> 0,
   page |-> <<>>, page_len |-> 0, total_results |-> 0,
   yielded |-> <<>>, requests |-> <<>>, stop |-> "none",
   source |-> ups, changed |-> FALSE]

\* get_all_cves from the top of its while loop to the answer of get_cves
StreamRequest ==
  /\ stream.pc = "request"
  /\ LET kw == IF /\ Truthy(stream.max_results)
                  /\ Val(stream.max_results) - stream.fetched_count
                       < stream.results_per_page
                 THEN Some(Val(stream.max_results) - stream.fetched_count)
                 ELSE stream.kwargs_results_per_page
         results_per_page == IF Truthy(kw) THEN Val(kw) ELSE stream.results_per_page
         served == IF results_per_page <= stream.server_limit
                     THEN results_per_page ELSE stream.server_limit
         response == get_cves(upstream, stream.start_index, served, None)
         empty == response.vulnerabilities = <<>>
     IN stream' = [stream EXCEPT
          !.kwargs_results_per_page = kw,
          !.requests = Append(@, [start_index |-> stream.start_index,
                                  results_per_page |-> results_per_page,
                                  returned |-> Len(response.vulnerabilities)]),
          !.page = response.vulnerabilities,
          !.page_len = Len(response.vulnerabilities),
          !.total_results = response.total_results,
          !.pc = IF empty THEN "done" ELSE "yield",
          !.stop = IF empty THEN "empty" ELSE "none"]
  /\ UNCHANGED <<now, orch_vars, store_vars, http, listing>>

\* a variant of the yield step that advances the offset by the page size asked
\* for instead of the number of records the page held
StreamYieldByPageSize ==
  /\ stream.pc = "yield"
  /\ LET vuln == Head(stream.page)
         fetched_count == stream.fetched_count + 1
         st == [stream EXCEPT !.yielded = Append(@, vuln),
                              !.fetched_count = fetched_count,
                              !.page = Tail(@)]
     IN stream' =
          IF Truthy(stream.max_results) /\ fetched_count >= Val(stream.max_results)
            THEN [st EXCEPT !.pc = "done", !.stop = "cap"]
          ELSE IF st.page # <<>> THEN st
          ELSE IF stream.start_index + stream.page_len >= stream.total_results
            THEN [st EXCEPT !.pc = "done", !.stop = "total"]
          ELSE [st EXCEPT !.start_index = @ + stream.results_per_page,
                          !.pc = "request"]
  /\ UNCHANGED <<now, orch_vars, store_vars, http, listing>>

\* get_all_cves yields one record of the page in hand and goes on to the next
\* suspension point: the next yield, the next request, or its end
StreamYield ==
  /\ stream.pc = "yield"
  /\ LET vuln == Head(stream.page)
         fetched_count == stream.fetched_count + 1
         st == [stream EXCEPT !.yielded = Append(@, vuln),
                              !.fetched_count = fetched_count,
                              !.page = Tail(@)]
     IN stream' =
          IF Truthy(stream.max_results) /\ fetched_count >= Val(stream.max_results)
            THEN [st EXCEPT !.pc = "done", !.stop = "cap"]
          ELSE IF st.page # <<>> THEN st
          ELSE IF stream.start_index + stream.page_len >= stream.total_results
            THEN [st EXCEPT !.pc = "done", !.stop = "total"]
          ELSE [st EXCEPT !.start_index = @ + stream.page_len, !.pc = "request"]
  /\ UNCHANGED <<now, orch_vars, store_vars, http, listing>>

\* upstream removes its first record while the generator runs
UpstreamChanges ==
  /\ stream.pc \in {"request", "yield"} /\ ~stream.changed
  /\ upstream # <<>>
  /\ upstream' = Tail(upstream)
  /\ stream' = [stream EXCEPT !.changed = TRUE]
  /\ UNCHANGED <<now, orch_vars, cves, references_col, upsert_log, store_writes,
               http, listing>>

InitStream ==
  \E ups \in UpstreamChoices, results_per_page \in 1..MaxPageSize,
     server_limit \in 1..MaxPageSize,
     max_results \in {None} \cup {Some(n) : n \in 0..MaxResults} :
    /\ InitBase(ups, {FALSE})
    /\ stream = NewStream(ups, results_per_page, server_limit, max_results)
    /\ http = NoRequest
    /\ listing = NoListing

NextStream == StreamRequest \/ StreamYield \/ UpstreamChanges

\* the consumer iterates to the end and every request is answered
SpecStream ==
  InitStream /\ [][NextStream]_vars /\ WF_vars(StreamRequest \/ StreamYield)

\* ------------------------------------------------- one upstream request
\* what one session.get of _make_request can meet: a response with a status and
\* a body, aiohttp.ClientError, or asyncio.TimeoutError
Statuses == {200, 400, 403, 404, 429, 500, 503}
Answers ==
  {[kind |-> "response", status |-> s, body |-> "text"] : s \in Statuses}
    \cup {[kind |-> k, status |-> 0, body |-> ""] :
            k \in {"ClientError", "TimeoutError"}}

NoError == [type |-> "", text |-> "", status |-> 0, body |-> "", attempts |-> 0]

\* the exception _make_request raises when the iteration with index attempt
\* meets answer and does not go round again
RaisedBy(answer, max_retries) ==
  IF answer.kind = "ClientError"
    THEN [type |-> "NVDAPIError", text |-> "Network error after", status |-> 0,
          body |-> "", attempts |-> max_retries + 1]
  ELSE IF answer.kind = "TimeoutError"
    THEN [type |-> "NVDAPIError", text |-> "Timeout after", status |-> 0,
          body |-> "", attempts |-> max_retries + 1]
  ELSE IF answer.status = RateLimitStatus
    THEN [type |-> "RateLimitError",
          text |-> "Rate limit exceeded and max retries reached", status |-> 0,
          body |-> "", attempts |-> 0]
  ELSE [type |-> "NVDAPIError", text |-> "HTTP", status |-> answer.status,
        body |-> answer.body, attempts |-> 0]

\* a variant that treats every status from 400 up as a server error
RetriedAnyError(answer) ==
  \/ answer.kind \in {"ClientError", "TimeoutError"}
  \/ answer.kind = "response" /\ answer.status >= 400

\* the answers after which the loop goes round again while attempts are left
Retried(answer) ==
  \/ answer.kind \in {"ClientError", "TimeoutError"}
  \/ answer.kind = "response"
       /\ (answer.status = RateLimitStatus \/ answer.status >= 500)

NewRequest(max_retries) ==
  [pc |-> "attempt", max_retries |-> max_retries, attempt |-> 0,
   answers |-> <<>>, delays |-> <<>>, error |-> NoError]

\* one iteration of the for loop of _make_request, from its backoff sleep to
\* its continue, return or raise
_make_request(answer) ==
  /\ http.pc = "attempt"
  /\ http.attempt <= http.max_retries
  /\ LET delays == IF http.attempt > 0
                     THEN Append(http.delays, 2 ^ (http.attempt - 1))
                     ELSE http.delays
         rq == [http EXCEPT !.answers = Append(@, answer), !.delays = delays]
     IN http' =
          IF answer.kind = "response" /\ answer.status < 400
            THEN [rq EXCEPT !.pc = "returned"]
          ELSE IF Retried(answer) /\ http.attempt < http.max_retries
            THEN [rq EXCEPT !.attempt = @ + 1]
          ELSE [rq EXCEPT !.pc = "raised",
                          !.error = RaisedBy(answer, http.max_retries)]
  /\ UNCHANGED <<now, orch_vars, store_vars, stream, listing>>

InitRequest ==
  \E max_retries \in 0..MaxRetries :
    /\ InitBase(<<>>, {FALSE})
    /\ stream = NoStream
    /\ http = NewRequest(max_retries)
    /\ listing = NoListing

NextRequest == \E answer \in Answers : _make_request(answer)

\* the upstream answers every attempt
SpecRequest == InitRequest /\ [][NextRequest]_vars /\ WF_vars(NextRequest)

\* -------------------------------------------------- bad upstream records
\* the bad-record specification: sequential non-forced runs against an
\* upstream that answers every request and serves exactly one bad record
BadItem(i, t, k) == [id |-> i, lm |-> Some(t), ver |-> 1, bad |-> k]

BadUpstreamChoices ==
  {[j \in 1..n |-> BadItem(j, 3 + j, IF j = b THEN k ELSE "none")] :
     n \in 1..3, b \in 1..3, k \in BadKinds \ {"none"}}
    \ {ups \in {[j \in 1..n |-> BadItem(j, 3 + j, "none")] : n \in 1..3} : TRUE}

InitBad == \E ups \in BadUpstreamChoices : InitWith(ups, {FALSE})

SpecBad == InitBad /\ [][NextSync]_vars

\* ------------------------------------------------------- list endpoint
\* how the store answers the two statements of CVEService.get_cves: both
\* succeed, the page query raises, or the count query raises
QueryOutcomes == {"ok", "query raises", "count raises"}

Min(a, b) == IF a <= b THEN a ELSE b

\* CVEService.get_cves: the CVEListResponse for a request [page, size] against
\* a table of stored rows of which matched pass the filters (items is the
\* number of rows of the page)
CVEService_get_cves(page, size, stored, matched, outcome) ==
  IF outcome = "ok"
    THEN LET offset == (page - 1) * size
             items == IF matched > offset THEN Min(size, matched - offset) ELSE 0
             total == stored
         IN [items |-> items, total |-> total, page |-> page, size |-> size,
             has_next |-> (page * size) < total, has_prev |-> page > 1]
    ELSE [items |-> 0, total |-> 0, page |-> page, size |-> size,
          has_next |-> FALSE, has_prev |-> FALSE]

NoResponse ==
  [items |-> 0, total |-> 0, page |-> 0, size |-> 0, has_next |-> FALSE,
   has_prev |-> FALSE]

\* a request to GET /cves (endpoint "list") or to GET /cves/score/{min}/{max}
\* (endpoint "score"): status is the HTTP status of the answer (0: none yet),
\* queried tells whether the store was sent a statement for it
NewFilteredListing(endpoint, page, size, stored, matched, min_score, max_score) ==
  [pc |-> "request", endpoint |-> endpoint, page |-> page, size |-> size,
   stored |-> stored, matched |-> matched, min_score |-> min_score,
   max_score |-> max_score, outcome |-> "none", status |-> 0,
   queried |-> FALSE, response |-> NoResponse]

NewListing(page, size, stored, matched) ==
  NewFilteredListing("list", page, size, stored, matched, None, None)

\* CVEFilters.validate_score_range raises ValueError
validate_score_range_raises(min_score, max_score) ==
  IsSome(min_score) /\ IsSome(max_score) /\ Val(max_score) < Val(min_score)

\* GET /cves: list_cves builds the CVEFilters, which validates the score
\* range, and returns what CVEService.get_cves returns; any exception of the
\* handler body is answered with status 500
list_cves(outcome) ==
  /\ listing.pc = "request" /\ listing.endpoint = "list"
  /\ listing' =
       IF validate_score_range_raises(listing.min_score, listing.max_score)
         THEN [listing EXCEPT !.pc = "answered", !.status = 500]
         ELSE [listing EXCEPT
                 !.pc = "answered",
                 !.outcome = outcome,
                 !.status = 200,
                 !.queried = TRUE,
                 !.response = CVEService_get_cves(listing.page, listing.size,
                                                  listing.stored, listing.matched,
                                                  outcome)]
  /\ UNCHANGED <<now, orch_vars, store_vars, stream, http>>

\* GET /cves/score/{min_score}/{max_score}: a reversed range is answered with
\* status 400 before the service is called; the service returns the matching
\* rows, or no rows when its query raises
get_cves_by_score_range(outcome) ==
  /\ listing.pc = "request" /\ listing.endpoint = "score"
  /\ listing' =
       IF Val(listing.min_score) > Val(listing.max_score)
         THEN [listing EXCEPT !.pc = "answered", !.status = 400]
         ELSE [listing EXCEPT
                 !.pc = "answered", !.outcome = outcome, !.status = 200,
                 !.queried = TRUE,
                 !.response = [NoResponse EXCEPT
                    !.items = IF outcome = "ok" THEN listing.matched ELSE 0]]
  /\ UNCHANGED <<now, orch_vars, store_vars, stream, http>>

InitListing ==
  \E page \in 1..MaxPage, size \in 1..MaxSize, stored \in 0..MaxStored :
    \E matched \in 0..stored :
      /\ InitBase(<<>>, {FALSE})
      /\ stream = NoStream
      /\ http = NoRequest
      /\ listing = NewListing(page, size, stored, matched)

\* the score-filter specification: requests to both endpoints with every
\* combination of score bounds (the path parameters of the score endpoint are
\* both required)
Scores == 0..MaxScore

InitScore ==
  \E endpoint \in {"list", "score"}, matched \in 0..1,
     min_score \in {None} \cup {Some(x) : x \in Scores},
     max_score \in {None} \cup {Some(x) : x \in Scores} :
    /\ endpoint = "score" => IsSome(min_score) /\ IsSome(max_score)
    /\ InitBase(<<>>, {FALSE})
    /\ stream = NoStream
    /\ http = NoRequest
    /\ listing = NewFilteredListing(endpoint, 1, 1, 1, matched, min_score, max_score)

NextScore ==
  \E outcome \in QueryOutcomes :
    \/ list_cves(outcome)
    \/ get_cves_by_score_range(outcome)

SpecScore == InitScore /\ [][NextScore]_vars

NextListing == \E outcome \in QueryOutcomes : list_cves(outcome)

SpecListing == InitListing /\ [][NextListing]_vars

\* ------------------------------------------------------ identifier case
\* an identifier as a client or upstream writes it: the row number it names
\* and whether its letters are lowercase ("cve-2023-1234")
RawIds == {[n |-> i, lower |-> l] : i \in {1, 2}, l \in BOOLEAN}

\* str.upper()
upper(raw) == [raw EXCEPT !.lower = FALSE]

\* the pattern ^CVE-\d{4}-\d{4,}$ of the path parameter of get_cve and of the
\* field CVEBase.cve_id
MatchesPattern(raw) == ~raw.lower

\* CVEBase.validate_cve_id: the value, uppercased, when it starts with
\* "CVE-"; None stands for the ValueError it raises otherwise
validate_cve_id(raw) ==
  IF raw.lower THEN None ELSE Some(upper(raw))

\* GET /cves/{cve_id}: the path parameter is validated against the pattern
\* (422), then get_cve_by_id(cve_id.upper()) gives the row (200) or None (404)
get_cve(raw) ==
  /\ listing.pc \in {"idle", "answered"}
  /\ listing' =
       IF ~MatchesPattern(raw)
         THEN [pc |-> "answered", endpoint |-> "get", cve_id |-> raw,
               status |-> 422, row |-> None]
         ELSE LET cve == get_cve_by_id(cves, upper(raw).n)
              IN [pc |-> "answered", endpoint |-> "get", cve_id |-> raw,
                  status |-> IF IsSome(cve) THEN 200 ELSE 404, row |-> cve]
  /\ UNCHANGED <<now, orch_vars, store_vars, stream, http>>

\* upsert_cve_from_nvd of an upstream item whose identifier is written raw:
\* _process_nvd_item builds CVECreate(cve_id=raw), which validates the field
\* against the pattern and then runs validate_cve_id; a validation error leaves
\* upsert_cve_from_nvd before any store operation
upsert_raw(raw, t) ==
  /\ Len(upsert_log) < MaxUpserts
  /\ IF ~MatchesPattern(raw) \/ validate_cve_id(raw) = None
       THEN /\ upsert_log' = Append(upsert_log, [raw |-> raw, raised |-> TRUE,
                                                 was_created |-> FALSE])
            /\ UNCHANGED <<cves, store_writes>>
       ELSE LET r == upsert_cve_from_nvd(cves, references_col,
                                         Item(Val(validate_cve_id(raw)).n, t, 1))
            IN /\ cves' = r.store
               /\ store_writes' = store_writes + r.wrote
               /\ upsert_log' = Append(upsert_log, [raw |-> raw, raised |-> FALSE,
                                                    was_created |-> r.was_created])
  /\ UNCHANGED <<now, orch_vars, upstream, references_col, client_vars>>

InitIdent == InitWith(<<>>, {FALSE})

NextIdent ==
  \/ \E raw \in RawIds, t \in {1, 2} : upsert_raw(raw, t)
  \/ \E raw \in RawIds : get_cve(raw)

SpecIdent == InitIdent /\ [][NextIdent]_vars

\* ----------------------------------------------------------- cleanup
\* a row the delete statement has removed: the table keeps ids, so the place
\* of a removed row stays empty
DeletedRow ==
  [sync_type |-> "none", status |-> "deleted", started_at |-> 0,
   completed_at |-> None, total_records |-> 0, processed_records |-> 0,
   new_records |-> 0, updated_records |-> 0, error_message |-> None,
   last_modified_date |-> None]

\* cutoff_date = datetime.now(timezone.utc) - timedelta(days=days_to_keep)
cutoff_date(t, days_to_keep) == t - days_to_keep * Day

\* a variant of the delete statement without its status filter
DeleteOlderAnyStatus(tbl, cutoff) ==
  [i \in 1..Len(tbl) |->
     IF tbl[i].status # "deleted" /\ tbl[i].started_at < cutoff
       THEN DeletedRow ELSE tbl[i]]

\* delete().lt("started_at", cutoff).in_("status", [completed, failed, cancelled])
DeleteOlder(tbl, cutoff) ==
  [i \in 1..Len(tbl) |->
     IF tbl[i].status \in Terminal /\ tbl[i].started_at < cutoff
       THEN DeletedRow ELSE tbl[i]]

\* SyncService.cleanup_old_sync_records: one delete statement; when the
\* statement raises the table is as it was
cleanup_old_sync_records(days_to_keep, outcome) ==
  /\ sync_status' = IF outcome = "ok"
                      THEN DeleteOlder(sync_status, cutoff_date(now, days_to_keep))
                      ELSE sync_status
  /\ reply' = Reply("cleanup", TRUE, FALSE, outcome, 0)
  /\ UNCHANGED <<now, tasks, services, callers, store_vars, client_vars>>

\* the rows earlier runs have left: a run that is running, one that completed
\* and one that failed, started at any time up to now
RowChoices ==
  {[sync_type |-> "full", status |-> st, started_at |-> t,
    completed_at |-> IF st = "running" THEN None ELSE Some(t),
    total_records |-> 0, processed_records |-> 0, new_records |-> 0,
    updated_records |-> 0,
    error_message |-> IF st = "failed" THEN Some("upstream error") ELSE None,
    last_modified_date |-> IF st = "completed" THEN Some(t) ELSE None] :
     st \in {"running", "completed", "failed"}, t \in 0..StartTime}

InitCleanup ==
  \E n \in 0..MaxRows : \E tbl \in [1..n -> RowChoices] :
    /\ now = StartTime
    /\ sync_status = tbl
    /\ tasks = <<>>
    /\ services = <<0>>
    /\ callers = [c \in Callers |-> IdleCaller]
    /\ reply = NoReply
    /\ cves = [i \in CveIds |-> None]
    /\ upstream = <<>>
    /\ references_col = FALSE
    /\ upsert_log = <<>>
    /\ store_writes = 0
    /\ stream = NoStream
    /\ http = NoRequest
    /\ listing = NoListing

NextCleanup ==
  \E days_to_keep \in 1..MaxDays, outcome \in {"ok", "raises"} :
    cleanup_old_sync_records(days_to_keep, outcome)

SpecCleanup == InitCleanup /\ [][NextCleanup]_vars

\* --------------------------------------------------------- normalisation
\* the optional sub-fields of an upstream item as _process_nvd_item reads
\* them.  A date string is absent, ISO text for a time, or text
\* datetime.fromisoformat cannot parse; metrics is absent or holds the
\* baseScore of its first cvssMetricV31 entry; descriptions is absent, empty
\* or holds one English text
DateStrings == {None, Some([iso |-> TRUE, t |-> 1]), Some([iso |-> FALSE, t |-> 0])}
MetricsChoices == {None} \cup {Some(x) : x \in (0 - 1)..(MaxScore + 1)}
DescriptionChoices == {None, Some(<<>>), Some(<<"text">>)}

RawItems ==
  {[id |-> 1, published |-> p, lastModified |-> l, metrics |-> m,
    descriptions |-> d] :
     p \in DateStrings, l \in DateStrings, m \in MetricsChoices,
     d \in DescriptionChoices}

\* _parse_date of a date string: absent and unparseable give None
_parse_date_str(date_str) ==
  IF date_str = None THEN None
  ELSE IF Val(date_str).iso THEN Some(Val(date_str).t)
  ELSE None

\* _extract_description(cve_data.get('descriptions', []))
_extract_description(descriptions) ==
  IF descriptions = None \/ Val(descriptions) = <<>> THEN None
  ELSE Some(Val(descriptions)[1])

\* _extract_cvss_v3(cve_data.get('metrics', {})): the baseScore, if any
_extract_cvss_v3(metrics) == metrics

\* "Decimal(str(cvss_v3_score)) if cvss_v3_score else None": a score of 0 is
\* dropped with the absent one
ScoreArgument(score) == IF IsSome(score) /\ Val(score) # 0 THEN score ELSE None

\* CVECreate validates cvss_v3_score: Field(None, ge=0, le=10); the largest
\* score of the model stands for 10
CVECreateRaises(score) == IsSome(score) /\ (Val(score) < 0 \/ Val(score) > MaxScore)

\* _process_nvd_item on the sub-fields: Some(record), or None when the
\* construction of CVECreate raises
_process_nvd_item_fields(raw) ==
  LET score == ScoreArgument(_extract_cvss_v3(raw.metrics))
  IN IF CVECreateRaises(score) THEN None
     ELSE Some([cve_id |-> raw.id,
                published |-> _parse_date_str(raw.published),
                last_modified |-> _parse_date_str(raw.lastModified),
                description |-> _extract_description(raw.descriptions),
                cvss_v3_score |-> score])

\* one call of _process_nvd_item
Normalize(raw) ==
  /\ upsert_log = <<>>
  /\ upsert_log' = <<[raw |-> raw, result |-> _process_nvd_item_fields(raw)]>>
  /\ UNCHANGED <<now, orch_vars, cves, upstream, references_col, store_writes,
                 client_vars>>

InitNormalize == InitWith(<<>>, {FALSE})

NextNormalize == \E raw \in RawItems : Normalize(raw)

SpecNormalize == InitNormalize /\ [][NextNormalize]_vars

\* the handler of _perform_sync runs while the status store is down: the
\* update of _update_sync_status_error raises, the exception is logged and
\* swallowed there, and the task ends with the row as it was.  (Of the status
\* writes only this one is modelled as failing.)
HandlerWriteFails(id) ==
  /\ id \in 1..Len(tasks)
  /\ tasks[id].pc = "closing"
  /\ tasks[id].exc # "none" \/ tasks[id].must_cancel
  /\ LET tk == tasks[id]
     IN /\ tasks' = [tasks EXCEPT ![id] =
             Finished(tk, IF tk.must_cancel THEN "cancelled" ELSE tk.exc)]
        /\ services' = ClearMarker(services, tk)
  /\ now' = now + 1
  /\ reply' = NoReply
  /\ UNCHANGED <<sync_status, callers, store_vars, client_vars>>

\* the steps of task id that are enabled whenever the task can run at all (a
\* page request that can be answered can also fail, so PageOk adds nothing to
\* their enabledness)
TaskRuns(id) ==
  \/ TaskStart(id)
  \/ ProbeOk(id)
  \/ BatchResume(id)
  \/ HttpFail(id)
  \/ CloseDone(id)
  \/ CancelDeliver(id)

\* the bound on the number of runs stops a forced trigger before it cancels
\* the running sync, not between the cancellation and the launch
WithinRuns ==
  \A c \in Callers :
    (callers'[c].pc = "await_cancel" /\ callers'[c].op = "trigger")
      => Len(sync_status) < MaxRuns

NextOutage ==
  \/ NextService /\ WithinRuns
  \/ \E id \in 1..MaxRuns : HandlerWriteFails(id)

\* the service specification with status-store failures, under fair
\* scheduling: the event loop runs every task that can run, upstream answers
\* or fails every request, and a caller awaiting a cancelled task resumes
SpecOutage ==
  /\ Init /\ [][NextOutage]_vars
  /\ \A id \in 1..MaxRuns : WF_vars(TaskRuns(id))
  /\ \A c \in Callers : WF_vars(CancelResume(c))

\* the race specification: two callers share the held SyncService object and
\* call trigger_sync on it concurrently; each may be suspended at the await
\* of cancel_running_sync while the other runs
RaceCallers == {1, 2}

InitRace ==
  /\ now = StartTime
  /\ sync_status = <<>>
  /\ tasks = <<>>
  /\ services = <<0>>
  /\ callers = [c \in RaceCallers |-> IdleCaller]
  /\ reply = NoReply
  /\ cves = [i \in CveIds |-> None]
  /\ upstream = Upstream2
  /\ references_col = FALSE
  /\ upsert_log = <<>>
  /\ store_writes = 0
  /\ stream = NoStream
  /\ http = NoRequest
  /\ listing = NoListing

NextRace ==
  \/ \E c \in RaceCallers, f \in BOOLEAN : trigger_sync(c, "full", f)
  \/ \E c \in RaceCallers : CancelResume(c)
  \/ \E id \in 1..(MaxRuns + 1) : CancelDeliver(id)
  \/ \E id \in 1..(MaxRuns + 1) :
       \/ TaskStart(id)
       \/ ProbeOk(id)
       \/ PageOk(id)
       \/ BatchResume(id)
       \/ HttpFail(id)
       \/ CloseDone(id)

SpecRace == InitRace /\ [][NextRace]_vars

\* the batch specification: upsert_cves_batch applied to batches of up to
\* BatchSize items, some of which make upsert_cve_from_nvd raise, on either
\* table layout; the log keeps what each call returned and what it wrote
BatchItems ==
  {[id |-> 1, lm |-> Some(l), ver |-> 1, bad |-> b] :
     l \in {1, 2}, b \in {"none", "record"}}

Batches ==
  {<<a>> : a \in BatchItems} \cup {<<a, b>> : a \in BatchItems, b \in BatchItems}

UpsertBatch(nvd_items) ==
  /\ Len(upsert_log) < MaxUpserts
  /\ LET r == upsert_cves_batch(cves, references_col, nvd_items)
     IN /\ cves' = r.store
        /\ store_writes' = store_writes + r.wrote
        /\ upsert_log' = Append(upsert_log,
             [nvd_items |-> nvd_items, created_count |-> r.created,
              updated_count |-> r.updated, wrote |-> r.wrote])
  /\ UNCHANGED <<now, orch_vars, upstream, references_col, client_vars>>

InitBatch == InitWith(<<>>, BOOLEAN)

NextBatch == \E nvd_items \in Batches : UpsertBatch(nvd_items)

SpecBatch == InitBatch /\ [][NextBatch]_vars

\* the interleaving specification: upsert_cve_from_nvd calls of sync runs in
\* different processes (scripts/start.py starts several workers, and
\* scripts/manage.py is a process of its own).  Each call is two store
\* operations, the select of get_cve_by_id and the insert or update, and
\* the operations of other calls may come between them.  The log keeps each
\* call with the row it read
MaxWriters == 2

WriterItems == {[id |-> 1, lm |-> Some(l), ver |-> 1, bad |-> "none"] : l \in {1, 2, 3}}

InFlight == {k \in 1..Len(upsert_log) : upsert_log[k].pc = "read"}

\* the insert of create_cve fails with "duplicate key" when the row is there
create_cve_raises(store, cve_data) == IsSome(store[cve_data.cve_id])

\* upsert_cve_from_nvd up to the answer of get_cve_by_id
UpsertRead(item) ==
  /\ Len(upsert_log) < MaxUpserts
  /\ Cardinality(InFlight) < MaxWriters
  /\ LET cve_data == _process_nvd_item(item)
     IN upsert_log' = Append(upsert_log,
          [item |-> item, pc |-> "read",
           existing_cve |-> get_cve_by_id(cves, cve_data.cve_id)])
  /\ UNCHANGED <<now, orch_vars, cves, upstream, references_col, store_writes,
                 client_vars>>

\* upsert_cve_from_nvd from "if existing_cve" on: the decision is taken on
\* the row read earlier, the write goes to the table as it is now
UpsertWrite(k) ==
  /\ k \in InFlight
  /\ LET cve_data == _process_nvd_item(upsert_log[k].item)
         existing_cve == upsert_log[k].existing_cve
     IN IF IsSome(existing_cve)
          THEN IF Newer(cve_data.last_modified, Val(existing_cve).last_modified)
                 THEN /\ cves' = update_cve(cves, references_col, cve_data)
                      /\ store_writes' = store_writes +
                           (IF update_cve_accepted(references_col) THEN 1 ELSE 0)
                 ELSE UNCHANGED <<cves, store_writes>>
          ELSE IF create_cve_raises(cves, cve_data)
                 THEN UNCHANGED <<cves, store_writes>>
                 ELSE /\ cves' = create_cve(cves, cve_data)
                      /\ store_writes' = store_writes + 1
  /\ upsert_log' = [upsert_log EXCEPT ![k].pc = "done"]
  /\ UNCHANGED <<now, orch_vars, upstream, references_col, client_vars>>

InitInterleave == InitWith(<<>>, BOOLEAN)

NextInterleave ==
  \/ \E item \in WriterItems : UpsertRead(item)
  \/ \E k \in 1..MaxUpserts : UpsertWrite(k)

SpecInterleave == InitInterleave /\ [][NextInterleave]_vars

\* ------------------------------------------------------------------ claims
RowIds == 1..Len(sync_status)
Running(tbl) == {i \in 1..Len(tbl) : tbl[i].status = "running"}
TriggerAnswered(f) == reply'.op = "trigger" /\ reply'.force = f

\* C1: in every reachable state at most one SyncRun row has status running
C1_SingleFlight == Cardinality(Running(sync_status)) <= 1

\* C2: after upsert(R1) and upsert(R2) of one identifier, both with a
\* last-modified timestamp, the stored row is R2 if R2 is strictly newer, and
\* otherwise it is R1 and the second upsert wrote nothing
C2_NewerWins ==
  (/\ Len(upsert_log) = 2
   /\ upsert_log[1].item.id = upsert_log[2].item.id
   /\ IsSome(upsert_log[1].item.lm) /\ IsSome(upsert_log[2].item.lm))
  => LET R1 == upsert_log[1].item
         R2 == upsert_log[2].item
     IN IF Val(R2.lm) > Val(R1.lm)
          THEN cves[R1.id] = Some(_process_nvd_item(R2))
          ELSE /\ cves[R1.id] = Some(_process_nvd_item(R1))
               /\ upsert_log[2].wrote = 0

\* C3: a row is created running, and its status changes at most once, from
\* running to completed, failed or cancelled; a terminal status never changes
C3_Lifecycle ==
  [][/\ \A i \in RowIds :
          sync_status'[i].status # sync_status[i].status
            => /\ sync_status[i].status = "running"
               /\ sync_status'[i].status \in Terminal
     /\ \A i \in 1..Len(sync_status') :
          i > Len(sync_status) => sync_status'[i].status = "running"]_vars

\* C4: a non-forced trigger answered while a row is running is refused with
\* "already running" (400 at the REST layer), creates no row and no task, and
\* leaves every row as it was
C4_RefusedWhileRunning ==
  [][(TriggerAnswered(FALSE) /\ Running(sync_status) # {})
       => /\ reply'.result = "already_running"
          /\ reply'.rest => HttpStatus(reply') = 400
          /\ sync_status' = sync_status
          /\ tasks' = tasks]_vars

\* C5: when a forced trigger creates its row, every run that was running when
\* it was issued has ended with status cancelled: no earlier row is running,
\* and the row of the run the trigger waited for is cancelled
C5_ForceCancelsFirst ==
  [][(Len(sync_status') > Len(sync_status) /\ reply'.force)
       => /\ \A i \in RowIds : sync_status'[i].status # "running"
          /\ \A c \in Callers :
               callers[c].pc = "await_cancel"
                 => sync_status'[callers[c].task].status = "cancelled"]_vars

\* C6: a cancel answered while a run is active returns true, and the row of
\* the run it waited for then has status cancelled, a completion timestamp
\* and a message
C6_CancelMarksCancelled ==
  [][/\ (reply'.op = "cancel" /\ \E i \in 1..Len(tasks) : ~Done(tasks[i]))
        => reply'.result = "cancelled"
     /\ \A c \in Callers :
          (callers[c].pc = "await_cancel" /\ callers[c].op = "cancel"
             /\ callers'[c].pc = "idle")
          => /\ reply'.result = "cancelled"
             /\ sync_status'[callers[c].task].status = "cancelled"
             /\ IsSome(sync_status'[callers[c].task].completed_at)
             /\ IsSome(sync_status'[callers[c].task].error_message)]_vars

\* C7: a cancel called on a service object with no unfinished run is
\* answered "not running" (false) in the same step, and a cancel answered
\* "not running" changes no row, no task, no field of a service object and
\* no stored record
C7_CancelIdleNoop ==
  [][/\ (reply'.op = "cancel" /\ callers' = callers
           /\ \A i \in 1..Len(tasks) : Done(tasks[i]))
        => reply'.result = "not_running"
     /\ (reply'.op = "cancel" /\ reply'.result = "not_running")
        => UNCHANGED <<now, sync_status, tasks, services, callers, store_vars, client_vars>>
     /\ \A c \in Callers :
          (callers[c].pc = "idle" /\ callers'[c].pc = "await_cancel")
          => /\ services[HeldService] = callers'[c].task
             /\ ~Done(tasks[callers'[c].task])]_vars

\* C7 witness: a cancel was answered "not running" after runs had been made
\* and had all finished
C7_Witness ==
  /\ reply.op = "cancel" /\ reply.result = "not_running"
  /\ Len(tasks) > 0
  /\ \A i \in 1..Len(tasks) : Done(tasks[i])

\* C8: a terminal row has a completion timestamp; a running row has none
C8_CompletedAt ==
  \A i \in RowIds :
    /\ sync_status[i].status \in Terminal => IsSome(sync_status[i].completed_at)
    /\ sync_status[i].status = "running" => sync_status[i].completed_at = None

C10_IncrementalIdempotent ==
  \A i \in RowIds :
    (/\ i + 1 \in RowIds
     /\ sync_status[i].sync_type = "incremental" /\ sync_status[i].status = "completed"
     /\ sync_status[i + 1].sync_type = "incremental"
     /\ sync_status[i + 1].status = "completed")
    => /\ sync_status[i + 1].new_records = 0
       /\ sync_status[i + 1].updated_records = 0
       /\ Val(sync_status[i + 1].last_modified_date) >= Val(sync_status[i].last_modified_date)

\* the completed rows, and the one completed last
CompletedRows(tbl) == {i \in 1..Len(tbl) : tbl[i].status = "completed"}
LastCompleted(tbl) ==
  CHOOSE i \in CompletedRows(tbl) :
    \A j \in CompletedRows(tbl) : Val(tbl[j].completed_at) <= Val(tbl[i].completed_at)

MaxLastModified(items) ==
  LET lms == {Val(items[k].lm) : k \in {k \in 1..Len(items) : IsSome(items[k].lm)}}
  IN CHOOSE m \in lms : \A x \in lms : x <= m

\* C12: a completed full run that streamed at least one record stores as its
\* high-water mark the maximum last-modified timestamp of the records streamed
C12_FullHighWaterMark ==
  \A i \in RowIds :
    (/\ sync_status[i].sync_type = "full" /\ sync_status[i].status = "completed"
     /\ upstream # <<>>)
    => sync_status[i].last_modified_date = Some(MaxLastModified(upstream))

\* the step in which the probe request of run id is answered
ProbeAnswered(id) ==
  /\ tasks[id].pc = "probe" /\ tasks'[id].pc # "probe" /\ tasks'[id].exc = "none"

RequestsPartition(rq) ==
  /\ rq # <<>> => rq[1].start_index = 0
  /\ \A k \in 1..Len(rq) - 1 :
       rq[k + 1].start_index = rq[k].start_index + rq[k].returned

\* C14: while upstream has not changed and no cap is given, the records
\* yielded so far are the first records of the upstream list, each once and
\* in order, the requested offsets partition the list, and when the
\* generator ends it has yielded the whole list, totalResults records
C14_StreamComplete ==
  (~stream.changed /\ stream.max_results = None)
  => /\ Len(stream.yielded) <= Len(stream.source)
     /\ stream.yielded = SubSeq(stream.source, 1, Len(stream.yielded))
     /\ RequestsPartition(stream.requests)
     /\ stream.pc = "done"
          => /\ stream.yielded = stream.source
             /\ Len(stream.yielded) = stream.total_results
             /\ stream.requests[Len(stream.requests)].start_index
                  + stream.requests[Len(stream.requests)].returned = Len(stream.source)

\* C14 witness: three records were streamed to the end in more than one page,
\* the server serving fewer records per page than were asked for
C14_Witness ==
  /\ stream.pc = "done" /\ ~stream.changed /\ stream.max_results = None
  /\ Len(stream.source) = 3 /\ stream.yielded = stream.source
  /\ Len(stream.requests) > 1
  /\ stream.server_limit < stream.results_per_page

\* the three reasons for which the generator may stop, as they stand now; the
\* cumulative offset is the number of records taken from the pages so far
TotalReached ==
  stream.requests # <<>> /\ Len(stream.yielded) >= stream.total_results
CapReached == IsSome(stream.max_results) /\ Len(stream.yielded) >= Val(stream.max_results)
EmptyPage ==
  stream.requests # <<>> /\ stream.requests[Len(stream.requests)].returned = 0

\* C15: the generator always ends; it never yields more than max_results
\* records; it has ended exactly when the cumulative offset has reached the
\* reported total, or the cap is reached, or a page came back empty; and once
\* it has ended it requests nothing more
C15_StreamStops ==
  /\ <>(stream.pc = "done")
  /\ [](IsSome(stream.max_results) => Len(stream.yielded) <= Val(stream.max_results))
  /\ [](stream.pc = "done"
          <=> \/ EmptyPage
              \/ CapReached
              \/ TotalReached)
  /\ [][stream.pc = "done" => stream' = stream]_vars

\* C16: a completed full run reports as processed_records (and as
\* total_records) the number of records upstream serves, whatever that number
\* is relative to the page size and the batch size; a full run's row is
\* running until then
C16_FullSyncProcessesAll ==
  \A i \in RowIds :
    sync_status[i].sync_type = "full"
    => /\ sync_status[i].status \in {"running", "completed"}
       /\ sync_status[i].status = "completed"
            => /\ sync_status[i].processed_records = Len(upstream)
               /\ sync_status[i].total_records = Len(upstream)

\* C16 witness: a full run over three records, served as a page of two and a
\* page of one and upserted as a batch of two and a batch of one, completed
C16_Witness ==
  /\ Len(upstream) = 3 /\ PageSize = 2 /\ BatchSize = 2
  /\ \E i \in RowIds :
       /\ sync_status[i].sync_type = "full" /\ sync_status[i].status = "completed"
       /\ sync_status[i].processed_records = 3


\* the cause of an exhaustion: the answer the last attempt met
Exhausted == http.pc = "raised" /\ Retried(http.answers[Len(http.answers)])
ExhaustionCause ==
  LET answer == http.answers[Len(http.answers)]
  IN IF answer.kind = "ClientError" THEN "network failure"
     ELSE IF answer.kind = "TimeoutError" THEN "timeout"
     ELSE IF answer.status = RateLimitStatus THEN "rate-limit exhaustion"
     ELSE "server error"
\* the exception type _make_request raises when it is exhausted by a cause
ExhaustionType(cause) ==
  LET answer == CHOOSE a \in Answers :
        /\ Retried(a)
        /\ cause = (IF a.kind = "ClientError" THEN "network failure"
                    ELSE IF a.kind = "TimeoutError" THEN "timeout"
                    ELSE IF a.status = RateLimitStatus THEN "rate-limit exhaustion"
                    ELSE "server error")
  IN RaisedBy(answer, http.max_retries).type

\* C17 (retries): an attempt that meets a rate-limit response, a 5xx response,
\* a network error or a timeout, with attempts left, is followed by another
C17_Retries ==
  [][\A answer \in Answers :
       (_make_request(answer) /\ Retried(answer)
          /\ http.attempt < http.max_retries)
       => http'.pc = "attempt" /\ http'.attempt = http.attempt + 1]_vars

\* C17 (attempt bound): one request makes at most max_retries + 1 attempts
C17_AttemptBound == Len(http.answers) <= http.max_retries + 1

\* C17 (typed error): when the attempts are exhausted by rate limiting, by
\* network failure or by timeout, the request fails, and the type of the error
\* it raises is the type of none of the other two causes
C17_TypedError ==
  LET Causes == {"rate-limit exhaustion", "network failure", "timeout"}
  IN (Exhausted /\ ExhaustionCause \in Causes)
       => \A other \in Causes \ {ExhaustionCause} :
            ExhaustionType(other) # http.error.type

\* C17: for one request, _make_request retries on a rate-limit response, a 5xx
\* response, a network error or a timeout, makes at most max_retries + 1 HTTP
\* attempts in total, and when the attempts are exhausted fails with a typed
\* error that distinguishes rate-limit exhaustion, network failure and timeout
\* from each other
C17_RetryPolicy == C17_Retries /\ []C17_AttemptBound /\ []C17_TypedError


\* a 4xx status other than the rate-limit status
ClientErrorStatus(s) == s >= 400 /\ s < 500 /\ s # RateLimitStatus

\* C18: when an attempt meets a 4xx status other than the rate-limit status,
\* the request fails on that attempt with an error carrying the upstream status
\* and body, and makes no further attempt, whatever the attempt number and
\* max_retries
C18_ClientErrorFailsAtOnce ==
  /\ [][\A answer \in Answers :
          (_make_request(answer) /\ answer.kind = "response"
             /\ ClientErrorStatus(answer.status))
          => /\ http'.pc = "raised"
             /\ http'.error.status = answer.status
             /\ http'.error.body = answer.body
             /\ Len(http'.answers) = Len(http.answers) + 1]_vars
  /\ [][http.pc = "raised" => http' = http]_vars

\* a request with retries left fails on its second attempt, which meets 404
C18_Witness ==
  /\ http.pc = "raised" /\ http.max_retries = MaxRetries
  /\ Len(http.answers) = 2
  /\ http.answers[2].status = 404
  /\ http.error.status = 404 /\ http.error.body = http.answers[2].body


Stored(item) == IsSome(cves[item.id])

\* C19: a single bad upstream record (one whose normalization or store write
\* raises, or whose last-modified date cannot be parsed) never fails a sync
\* run: the run does not end failed, and once it has completed, every other
\* upstream record is in the store and a record whose upsert raises is not, in
\* both the full and the incremental path
C19_BadRecordSkipped ==
  \A id \in RowIds :
    /\ sync_status[id].status # "failed"
    /\ sync_status[id].status = "completed"
         => \A k \in 1..Len(upstream) :
              Stored(upstream[k]) <=> ~UpsertRaises(upstream[k])


\* C20: for every list request (page = p >= 1, size = s) against a store
\* holding T records, whether or not the store query succeeds, the response
\* has at most s items, has_next = (p*s < T) and has_prev = (p > 1), where T is
\* the total the response reports
C20_Pagination ==
  listing.pc = "answered"
    => LET p == listing.page
           s == listing.size
           T == listing.response.total
       IN /\ listing.response.items <= s
          /\ listing.response.has_next = (p * s < T)
          /\ listing.response.has_prev = (p > 1)


\* C21: every request carrying a score filter with min > max is rejected with
\* a client error (400 or 422) and never answered with a successful empty
\* result, on the score-range endpoint and on the list endpoint's
\* min_score/max_score filters, and the store is not queried for it
C21_ReversedRangeRejected ==
  (/\ listing.pc = "answered"
   /\ IsSome(listing.min_score) /\ IsSome(listing.max_score)
   /\ Val(listing.min_score) > Val(listing.max_score))
  => listing.status \in {400, 422} /\ ~listing.queried


\* C22: an identifier given in lowercase is normalized to uppercase before any
\* store operation: get-by-id answers the lowercase form as it would answer
\* the uppercase form (the row, or not found), and an upsert of a record with
\* a lowercase identifier does not raise and leaves a row stored under the
\* uppercase identifier
C22_LowercaseNormalized ==
  /\ (listing.pc = "answered" /\ listing.cve_id.lower)
       => LET cve == get_cve_by_id(cves, listing.cve_id.n)
          IN /\ listing.status = (IF IsSome(cve) THEN 200 ELSE 404)
             /\ listing.row = cve
  /\ \A k \in 1..Len(upsert_log) :
       upsert_log[k].raw.lower
         => ~upsert_log[k].raised /\ IsSome(cves[upsert_log[k].raw.n])


\* C23: cleanup_old_sync_records(days) deletes only SyncRun rows that are in a
\* terminal status and older than the cutoff: a row in status running is never
\* deleted, whatever its age, and every row that is not deleted, the rows newer
\* than the cutoff among them, is unchanged; the terminal rows older than the
\* cutoff are deleted when the statement succeeds
C23_CleanupTerminalOnly ==
  [][\A days_to_keep \in 1..MaxDays, outcome \in {"ok", "raises"} :
       cleanup_old_sync_records(days_to_keep, outcome)
       => /\ Len(sync_status') = Len(sync_status)
          /\ \A i \in RowIds :
               LET row == sync_status[i]
                   old == row.started_at < now - days_to_keep * Day
               IN /\ sync_status'[i] # row
                       => /\ sync_status'[i].status = "deleted"
                          /\ row.status \in Terminal /\ old
                  /\ (outcome = "ok" /\ row.status \in Terminal /\ old)
                       => sync_status'[i].status = "deleted"]_vars

\* a cleanup has deleted an old completed row and kept an older running row
\* and a newer failed row
C23_Witness ==
  /\ reply.op = "cleanup" /\ reply.result = "ok"
  /\ Len(sync_status) = 2
  /\ sync_status[1].status = "running" /\ sync_status[1].started_at = 0
  /\ sync_status[2].status = "deleted"


\* C24: normalization never fails: for every upstream item, whatever optional
\* sub-fields are absent or malformed (missing or unparseable dates, missing
\* metrics, out-of-range score, missing description list), _process_nvd_item
\* raises no error and returns a record with the affected fields absent
C24_NormalizeNeverFails ==
  \A k \in 1..Len(upsert_log) :
    LET raw == upsert_log[k].raw
        result == upsert_log[k].result
        Unparseable(d) == d = None \/ ~Val(d).iso
    IN /\ IsSome(result)
       /\ Unparseable(raw.published) => Val(result).published = None
       /\ Unparseable(raw.lastModified) => Val(result).last_modified = None
       /\ (raw.metrics = None \/ CVECreateRaises(raw.metrics))
            => Val(result).cvss_v3_score = None
       /\ (raw.descriptions = None) => Val(result).description = None


\* the record is in the store in the version upstream holds, or the store
\* holds a version of it that is no older
StoredOrNewer(item) ==
  /\ IsSome(cves[item.id])
  /\ \/ Val(cves[item.id]).ver = item.ver
     \/ /\ IsSome(Val(cves[item.id]).last_modified)
        /\ Val(Val(cves[item.id]).last_modified) >= Val(item.lm)

\* C25: no upstream modification is permanently missed: when a run has
\* completed with high-water mark h, every upstream record version with
\* lastModified <= h is in the store (or the store holds a newer one), so that
\* the next incremental sync, whose window starts at h, cannot skip it; also
\* when some records of the run were skipped
C25_NothingMissed ==
  \A id \in RowIds :
    (sync_status[id].status = "completed" /\ IsSome(sync_status[id].last_modified_date))
    => \A k \in 1..Len(upstream) :
         (IsSome(upstream[k].lm)
            /\ Val(upstream[k].lm) <= Val(sync_status[id].last_modified_date))
         => StoredOrNewer(upstream[k])


\* C26: every triggered run eventually terminates: under fair scheduling and
\* an upstream that eventually answers or fails every request, each SyncRun
\* row created by trigger eventually has a terminal status, also when the
\* run's task is cancelled
C26_RunsTerminate ==
  \A id \in 1..MaxRuns :
    (id \in RowIds /\ sync_status[id].status = "running")
      ~> (id \in RowIds /\ sync_status[id].status \in Terminal)


\* C27: cancel() and the cancel step of a forced trigger modify only the
\* SyncRun row of the run whose task was cancelled: when the caller resumes
\* after the cancelled task has ended, every other row that existed, any other
\* row with status running included, is left as it was
C27_CancelTouchesOwnRow ==
  [][\A c \in Callers :
       (callers[c].pc = "await_cancel" /\ callers'[c].pc = "idle")
       => \A i \in RowIds \ {callers[c].task} : sync_status'[i] = sync_status[i]]_vars


\* the tasks launched by the held service object that have not finished
Unfinished == {i \in 1..Len(tasks) : tasks[i].owner = HeldService /\ ~Done(tasks[i])}

\* C28: on one SyncService object, is_sync_running() is true whenever a task
\* the object launched has not finished, and at most one such task is
\* unfinished, whatever the interleaving of concurrent trigger calls
C28_MarkerTracksTask ==
  /\ Unfinished # {} => is_sync_running(services[HeldService], tasks)
  /\ Cardinality(Unfinished) <= 1


\* C29: upsert_cves_batch returns the number of items that inserted a row and
\* the number that overwrote one; no-ops and items that raised are counted
\* in neither, so the two counts add up to the store writes of the batch
C29_CountsAreWrites ==
  \A k \in 1..Len(upsert_log) :
    upsert_log[k].created_count + upsert_log[k].updated_count = upsert_log[k].wrote


====
